---- MODULE Spec2Model ----
(***************************************************************************)
(* Methane gas gradient calculator (methane_gas_gradient.py).              *)
(*                                                                         *)
(* The program is two numeric functions over Python floats (IEEE-754       *)
(* binary64) and a command-line main.  Floats are modelled bit-exactly:    *)
(* a finite float is sign * m * 2^e with m an arbitrary-precision natural  *)
(* (a little-endian sequence of limbs), every operation rounds to nearest, *)
(* ties to even, with gradual underflow and overflow to infinity, and      *)
(* Python's float division raises ZeroDivisionError on a zero divisor.     *)
(***************************************************************************)
EXTENDS Integers, Sequences, FiniteSets, TLC

(***************************************************************************)
(* Arbitrary-precision naturals: little-endian limbs, no high zero limb.   *)
(***************************************************************************)
LimbBits == 15

Pow2Small(k) == CASE k = 0 -> 1 [] k = 1 -> 2 [] k = 2 -> 4 [] k = 3 -> 8
                  [] k = 4 -> 16 [] k = 5 -> 32 [] k = 6 -> 64 [] k = 7 -> 128
                  [] k = 8 -> 256 [] k = 9 -> 512 [] k = 10 -> 1024
                  [] k = 11 -> 2048 [] k = 12 -> 4096 [] k = 13 -> 8192
                  [] k = 14 -> 16384 [] k = 15 -> 32768

Base == Pow2Small(LimbBits)

RECURSIVE BNorm(_)
BNorm(a) == IF a = <<>> THEN a
            ELSE IF a[Len(a)] = 0 THEN BNorm(SubSeq(a, 1, Len(a) - 1)) ELSE a

Limb(a, i) == IF i <= Len(a) THEN a[i] ELSE 0

RECURSIVE SmallBitLen(_)
SmallBitLen(n) == IF n = 0 THEN 0 ELSE 1 + SmallBitLen(n \div 2)

BitLen(a) == IF a = <<>> THEN 0
             ELSE LimbBits * (Len(a) - 1) + SmallBitLen(a[Len(a)])

RECURSIVE BFromNat(_)
BFromNat(n) == IF n = 0 THEN <<>> ELSE <<n % Base>> \o BFromNat(n \div Base)

\* -1, 0, 1 as a < b, a = b, a > b
RECURSIVE BCmpFrom(_, _, _)
BCmpFrom(a, b, i) == IF i = 0 THEN 0
                     ELSE IF a[i] < b[i] THEN -1
                     ELSE IF a[i] > b[i] THEN 1
                     ELSE BCmpFrom(a, b, i - 1)

BCmp(a, b) == IF Len(a) < Len(b) THEN -1
              ELSE IF Len(a) > Len(b) THEN 1
              ELSE BCmpFrom(a, b, Len(a))

RECURSIVE BAddC(_, _, _, _, _)
BAddC(a, b, i, c, acc) ==
    IF i > Len(a) /\ i > Len(b)
    THEN IF c = 0 THEN acc ELSE Append(acc, c)
    ELSE LET s == Limb(a, i) + Limb(b, i) + c
         IN  BAddC(a, b, i + 1, s \div Base, Append(acc, s % Base))

BAdd(a, b) == BAddC(a, b, 1, 0, <<>>)

\* a - b for a >= b
RECURSIVE BSubC(_, _, _, _, _)
BSubC(a, b, i, c, acc) ==
    IF i > Len(a) THEN BNorm(acc)
    ELSE LET s == a[i] - Limb(b, i) - c
         IN  IF s < 0 THEN BSubC(a, b, i + 1, 1, Append(acc, s + Base))
             ELSE BSubC(a, b, i + 1, 0, Append(acc, s))

BSub(a, b) == BSubC(a, b, 1, 0, <<>>)

\* a * d for one limb d
RECURSIVE BMulDC(_, _, _, _, _)
BMulDC(a, d, i, c, acc) ==
    IF i > Len(a)
    THEN IF c = 0 THEN acc ELSE Append(acc, c)
    ELSE LET s == a[i] * d + c
         IN  BMulDC(a, d, i + 1, s \div Base, Append(acc, s % Base))

BMulD(a, d) == IF d = 0 \/ a = <<>> THEN <<>> ELSE BMulDC(a, d, 1, 0, <<>>)

Zeros(n) == [i \in 1..n |-> 0]

\* a * Base^k
ShiftLimbs(a, k) == IF a = <<>> THEN a ELSE Zeros(k) \o a

RECURSIVE BMulFrom(_, _, _)
BMulFrom(a, b, i) ==
    IF i > Len(b) THEN <<>>
    ELSE BAdd(ShiftLimbs(BMulD(a, b[i]), i - 1), BMulFrom(a, b, i + 1))

BMul(a, b) == BMulFrom(a, b, 1)

\* a * 2^k
BShl(a, k) == ShiftLimbs(BMulD(a, Pow2Small(k % LimbBits)), k \div LimbBits)

\* floor(a / 2^k)
BShr(a, k) ==
    LET q == k \div LimbBits
        r == k % LimbBits
        lo == Pow2Small(r)
        hi == Pow2Small(LimbBits - r)
    IN  IF q >= Len(a) THEN <<>>
        ELSE BNorm([i \in 1..(Len(a) - q) |->
                      (a[i + q] \div lo) + (Limb(a, i + q + 1) % lo) * hi])

\* bit j (from 0) of a
Bit(a, j) == (Limb(a, (j \div LimbBits) + 1) \div Pow2Small(j % LimbBits)) % 2

\* a mod 2^k = 0
LowZero(a, k) ==
    LET q == k \div LimbBits
        r == k % LimbBits
    IN  /\ \A i \in 1..q : Limb(a, i) = 0
        /\ Limb(a, q + 1) % Pow2Small(r) = 0

BOne == <<1>>

(***************************************************************************)
(* Python float: IEEE-754 binary64.  A value is a record                   *)
(*   [cls, sgn, m, e]: cls "fin" is (-1)^sgn * m * 2^e with m < 2^53 and   *)
(*   e in MinExp..MaxExp, m >= 2^52 unless e = MinExp (subnormals, zero);  *)
(*   cls "inf" is a signed infinity; cls "nan" is not-a-number.            *)
(* The representation is canonical, so = on records is identity of floats  *)
(* (with +0.0 and -0.0 distinct, as their bit patterns are).               *)
(***************************************************************************)
MantBits == 53
MinExp == -1074
MaxExp == 971

FZero(s) == [cls |-> "fin", sgn |-> s, m |-> <<>>, e |-> MinExp]
FInf(s) == [cls |-> "inf", sgn |-> s, m |-> <<>>, e |-> 0]
NaN == [cls |-> "nan", sgn |-> 0, m |-> <<>>, e |-> 0]

IsNaN(a) == a.cls = "nan"
IsInf(a) == a.cls = "inf"
IsFinite(a) == a.cls = "fin"
IsZero(a) == a.cls = "fin" /\ a.m = <<>>

Pack(s, m, e) == IF e > MaxExp THEN FInf(s)
                 ELSE [cls |-> "fin", sgn |-> s, m |-> m, e |-> e]

\* the exponent of the last place kept: MantBits places, but none below
\* MinExp (gradual underflow)
TargetExp(x) == IF x < MinExp THEN MinExp ELSE x

\* ties to even: q is M without its low sh bits, guard the highest bit
\* dropped, restZero whether every lower dropped bit is zero
RoundUp(q, guard, restZero) ==
    IF guard = 1 /\ (~restZero \/ Bit(q, 0) = 1) THEN BAdd(q, BOne) ELSE q

RoundShift(M, sh) == RoundUp(BShr(M, sh), Bit(M, sh - 1), LowZero(M, sh - 1))

\* rounding up may carry into one more bit
Carry(s, q1, e1) == IF BitLen(q1) > MantBits THEN Pack(s, BShr(q1, 1), e1 + 1)
                    ELSE Pack(s, q1, e1)

RoundTo(s, M, E, e1) == IF e1 <= E THEN Pack(s, BShl(M, E - e1), e1)
                        ELSE Carry(s, RoundShift(M, e1 - E), e1)

\* the float nearest to (-1)^s * M * 2^E, ties to even
Round(s, M, E) ==
    IF M = <<>> THEN FZero(s)
    ELSE RoundTo(s, M, E, TargetExp(E + BitLen(M) - MantBits))

FromInt(n) == IF n < 0 THEN Round(1, BFromNat(-n), 0) ELSE Round(0, BFromNat(n), 0)

FNeg(a) == IF IsNaN(a) THEN a ELSE [a EXCEPT !.sgn = 1 - a.sgn]

Xor(s, t) == IF s = t THEN 0 ELSE 1

FMul(a, b) ==
    IF IsNaN(a) \/ IsNaN(b) THEN NaN
    ELSE IF IsInf(a) \/ IsInf(b)
         THEN IF IsZero(a) \/ IsZero(b) THEN NaN ELSE FInf(Xor(a.sgn, b.sgn))
         ELSE Round(Xor(a.sgn, b.sgn), BMul(a.m, b.m), a.e + b.e)

\* magnitude comparison of finite floats: -1, 0, 1
MagCmp(a, b) == IF a.e < b.e THEN -1
                ELSE IF a.e > b.e THEN 1
                ELSE BCmp(a.m, b.m)

\* X * 2^E plus or minus Y * 2^E, X >= Y, rounded once
AddAligned(sb, ss, X, Y, E) ==
    IF sb = ss THEN Round(sb, BAdd(X, Y), E)
    ELSE IF X = Y THEN FZero(0)
    ELSE Round(sb, BSub(X, Y), E)

\* |big| >= |sml| > 0.  More than 64 binary places apart, the small operand
\* only decides the direction of rounding: it is below 1/8 of the last
\* place of the large one, and so is the unit that stands for it
AddOrdered(big, sml) ==
    IF big.e - sml.e > MantBits + 11
    THEN AddAligned(big.sgn, sml.sgn, BShl(big.m, 3), BOne, big.e - 3)
    ELSE AddAligned(big.sgn, sml.sgn, BShl(big.m, big.e - sml.e), sml.m, sml.e)

\* the exact sum of two finite floats, rounded once
AddFinite(a, b) ==
    IF IsZero(a) /\ IsZero(b) THEN FZero(IF a.sgn = 1 /\ b.sgn = 1 THEN 1 ELSE 0)
    ELSE IF IsZero(b) THEN a
    ELSE IF IsZero(a) THEN b
    ELSE IF MagCmp(a, b) >= 0 THEN AddOrdered(a, b)
    ELSE AddOrdered(b, a)

FAdd(a, b) ==
    IF IsNaN(a) \/ IsNaN(b) THEN NaN
    ELSE IF IsInf(a) THEN (IF IsInf(b) /\ a.sgn # b.sgn THEN NaN ELSE a)
    ELSE IF IsInf(b) THEN b
    ELSE AddFinite(a, b)

FSub(a, b) == FAdd(a, FNeg(b))

\* Long division by limbs (Knuth's algorithm D).  The divisor V has
\* MantLimbs limbs, the top one at least Base / 2, and R < V.  Each step
\* brings down a zero limb and finds one quotient limb: the estimate from
\* the two top limbs of the remainder is at most 2 too large.
MantLimbs == (MantBits + LimbBits - 1) \div LimbBits

RECURSIVE FixDigit(_, _, _)
FixDigit(V, R1, qd) ==
    IF BCmp(BMulD(V, qd), R1) > 0 THEN FixDigit(V, R1, qd - 1) ELSE qd

EstDigit(R, V) ==
    LET est == (Limb(R, MantLimbs) * Base + Limb(R, MantLimbs - 1))
                   \div V[MantLimbs]
    IN  IF est > Base - 1 THEN Base - 1 ELSE est

RECURSIVE DivLimbs(_, _, _, _)
RECURSIVE DivDigit(_, _, _, _, _)
\* R1 is the remainder with the next limb brought down, qd its quotient limb
DivDigit(R1, V, q, n, qd) ==
    DivLimbs(BSub(R1, BMulD(V, qd)), V, <<qd>> \o q, n)

DivLimbs(R, V, q, n) ==
    IF Len(q) >= n THEN <<BNorm(q), R>>
    ELSE DivDigit(ShiftLimbs(R, 1), V, q, n,
                  FixDigit(V, ShiftLimbs(R, 1), EstDigit(R, V)))

\* qr = <<floor(R0 * Base^MantLimbs / V), remainder>>: one more bit below
\* the quotient, set when the division is inexact
DivResult(s, qr, E) ==
    Round(s, BAdd(BAdd(qr[1], qr[1]), IF qr[2] = <<>> THEN <<>> ELSE BOne), E)

\* both mantissas brought to MantBits bits: A < 2 * B, so
\* R0 = A * 2^(up-1) < V = B * 2^up, with V's top limb at least Base / 2
DivFinite(a, b) ==
    LET sa == MantBits - BitLen(a.m)
        sb == MantBits - BitLen(b.m)
        up == MantLimbs * LimbBits - MantBits
    IN  DivResult(Xor(a.sgn, b.sgn),
                  DivLimbs(BShl(a.m, sa + up - 1), BShl(b.m, sb + up), <<>>,
                           MantLimbs),
                  (a.e - sa) - (b.e - sb) - MantLimbs * LimbBits)

\* IEEE quotient for a non-zero divisor
FDiv(a, b) ==
    IF IsNaN(a) \/ IsNaN(b) THEN NaN
    ELSE IF IsInf(a) THEN (IF IsInf(b) THEN NaN ELSE FInf(Xor(a.sgn, b.sgn)))
    ELSE IF IsInf(b) \/ IsZero(a) THEN FZero(Xor(a.sgn, b.sgn))
    ELSE DivFinite(a, b)

\* a < b, a <= b, a == b of Python floats (false when either is NaN)
FLt(a, b) ==
    IF IsNaN(a) \/ IsNaN(b) THEN FALSE
    ELSE IF IsZero(a) /\ IsZero(b) THEN FALSE
    ELSE IF a.sgn # b.sgn THEN a.sgn = 1
    ELSE IF IsInf(a) THEN (a.sgn = 1 /\ ~IsInf(b))
    ELSE IF IsInf(b) THEN b.sgn = 0
    ELSE IF a.sgn = 0 THEN MagCmp(a, b) < 0 ELSE MagCmp(a, b) > 0

FEq(a, b) == IF IsNaN(a) \/ IsNaN(b) THEN FALSE
             ELSE (IsZero(a) /\ IsZero(b)) \/ a = b

FLe(a, b) == FLt(a, b) \/ FEq(a, b)
FGt(a, b) == FLt(b, a)
FGe(a, b) == FLe(b, a)

\* a decimal literal n / d (d a power of ten): the nearest float, which is
\* the correctly rounded quotient of the two exactly representable integers
Dec(n, d) == FDiv(FromInt(n), FromInt(d))

\* 2^k as a float, MinExp <= k <= MaxExp + MantBits - 1
FPow2(k) == Round(0, BOne, k)

(***************************************************************************)
(* Python operators on floats.                                             *)
(***************************************************************************)
ZeroDivisionError == [cls |-> "ZeroDivisionError", sgn |-> 0, m |-> <<>>, e |-> 0]

Raised(x) == x.cls = "ZeroDivisionError"

\* x / y: float division by zero raises, whatever the dividend
TrueDiv(a, b) == IF IsZero(b) THEN ZeroDivisionError ELSE FDiv(a, b)

\* min(a, b) and max(a, b) of two arguments: the first argument is kept
\* unless the second compares strictly smaller (larger), so a NaN in first
\* place is returned and a NaN in second place is dropped
PyMin(a, b) == IF FLt(b, a) THEN b ELSE a
PyMax(a, b) == IF FGt(b, a) THEN b ELSE a

(***************************************************************************)
(* calculate_compressibility_factor                                        *)
(***************************************************************************)
P_critical == Dec(6678, 10)
Lit_82_6 == Dec(826, 10)
Lit_273_15 == Dec(27315, 100)
Lit_9 == FromInt(9)
Lit_5 == FromInt(5)
Lit_0_36 == Dec(36, 100)
Lit_1_0 == FromInt(1)
Lit_0_5 == Dec(5, 10)
Lit_1_2 == Dec(12, 10)

\* (-82.6 + 273.15) * 9/5
T_critical_rankine ==
    TrueDiv(FMul(FAdd(FNeg(Lit_82_6), Lit_273_15), Lit_9), Lit_5)

\* (temp_celsius + 273.15) * 9/5
ToRankineKelvin(temp_celsius) ==
    TrueDiv(FMul(FAdd(temp_celsius, Lit_273_15), Lit_9), Lit_5)

P_reduced(pressure_psi) == TrueDiv(pressure_psi, P_critical)

T_reduced(temp_celsius) == TrueDiv(ToRankineKelvin(temp_celsius), T_critical_rankine)

\* the sign of line 39 slipped: 1.0 + (0.36 * P_reduced / T_reduced)
OneMinus_Plus(q) == IF Raised(q) THEN q ELSE FAdd(Lit_1_0, q)

\* 1.0 - q, unless computing q raised
OneMinus(q) == IF Raised(q) THEN q ELSE FSub(Lit_1_0, q)

\* Z = 1.0 - (0.36 * P_reduced / T_reduced); the division raises when
\* T_reduced is zero
LinearZ(Pr, Tr) == OneMinus(TrueDiv(FMul(Lit_0_36, Pr), Tr))

\* line 42 with max in place of min
Clamp_MaxMax(Z) == PyMax(Lit_0_5, PyMax(Z, Lit_1_2))

\* Z = max(0.5, min(Z, 1.2))
Clamp(Z) == PyMax(Lit_0_5, PyMin(Z, Lit_1_2))

\* line 42 dropped: the linear value is returned as it is
ClampAndReturn_NoClamp(Z) == Z

\* line 42 and the return, reached only when line 39 did not raise
ClampAndReturn(Z) == IF Raised(Z) THEN Z ELSE Clamp(Z)

\* The locals of one call when it returns or raises, statement by
\* statement: Z_raw is Z after line 39, Z the value returned (or the
\* exception raised).
CompressibilityLine39(temp_rankine, Pr, Tr, Z) ==
    [temp_rankine |-> temp_rankine, P_reduced |-> Pr, T_reduced |-> Tr,
     Z_raw |-> Z, Z |-> ClampAndReturn(Z)]

CompressibilityLine35(temp_rankine, Pr, Tr) ==
    CompressibilityLine39(temp_rankine, Pr, Tr, LinearZ(Pr, Tr))

CompressibilityLine31(temp_rankine, pressure_psi) ==
    CompressibilityLine35(temp_rankine, P_reduced(pressure_psi),
                          TrueDiv(temp_rankine, T_critical_rankine))

CompressibilityFrame(pressure_psi, temp_celsius) ==
    CompressibilityLine31(ToRankineKelvin(temp_celsius), pressure_psi)

calculate_compressibility_factor(pressure_psi, temp_celsius) ==
    CompressibilityFrame(pressure_psi, temp_celsius).Z

(***************************************************************************)
(* calculate_gas_gradient                                                  *)
(***************************************************************************)
MW_METHANE == Dec(1604, 100)
R == Dec(10732, 1000)
Lit_491_67 == Dec(49167, 100)

\* line 78 dividing by 12 (in/ft) instead of 144 (in^2/ft^2)
Lit_144_Inches == FromInt(12)

Lit_144 == FromInt(144)

\* line 64 with the offset subtracted
ToRankineDirect_SignSlip(temp_celsius) ==
    FSub(TrueDiv(FMul(temp_celsius, Lit_9), Lit_5), Lit_491_67)

\* line 64 with the Fahrenheit offset 459.67
ToRankineDirect_Fahrenheit(temp_celsius) ==
    FAdd(TrueDiv(FMul(temp_celsius, Lit_9), Lit_5), Dec(45967, 100))

\* (temp_celsius * 9/5) + 491.67
ToRankineDirect(temp_celsius) ==
    FAdd(TrueDiv(FMul(temp_celsius, Lit_9), Lit_5), Lit_491_67)

\* density_lb_per_ft3 = (pressure_psi * MW_METHANE) / (Z * R * temp_rankine)
Density(pressure_psi, Z, temp_rankine) ==
    TrueDiv(FMul(pressure_psi, MW_METHANE), FMul(FMul(Z, R), temp_rankine))

\* gas_gradient = density_lb_per_ft3 / 144
GradientOf(density_lb_per_ft3) == TrueDiv(density_lb_per_ft3, Lit_144)

\* gas_gradient = density_lb_per_ft3 / 144, unless line 73 raised
GradientLine78(density_lb_per_ft3) ==
    IF Raised(density_lb_per_ft3) THEN density_lb_per_ft3
    ELSE GradientOf(density_lb_per_ft3)

\* line 73, unless the call of line 67 raised
GradientLine73(pressure_psi, Z, temp_rankine) ==
    IF Raised(Z) THEN Z ELSE Density(pressure_psi, Z, temp_rankine)

\* The locals of one call when it returns or raises, statement by statement.
GradientLine74(temp_rankine, Z, density_lb_per_ft3) ==
    [temp_rankine |-> temp_rankine, Z |-> Z,
     density_lb_per_ft3 |-> density_lb_per_ft3,
     gas_gradient |-> GradientLine78(density_lb_per_ft3)]

GradientLine68(pressure_psi, temp_rankine, Z) ==
    GradientLine74(temp_rankine, Z, GradientLine73(pressure_psi, Z, temp_rankine))

GradientFrame(pressure_psi, temp_celsius) ==
    GradientLine68(pressure_psi, ToRankineDirect(temp_celsius),
                   calculate_compressibility_factor(pressure_psi, temp_celsius))

\* the report of the verbose branch, by label and value formatted
VerboseReport(f) ==
    << [label |-> "Compressibility (Z)", val |-> f.Z],
       [label |-> "Gas Density", val |-> f.density_lb_per_ft3],
       [label |-> "Gas Gradient", val |-> f.gas_gradient] >>

\* what the call prints: the report when verbose, and only once every
\* statement that can raise has run
GradientPrints(f, verbose) ==
    IF verbose /\ ~Raised(f.gas_gradient) THEN VerboseReport(f) ELSE <<>>

\* line 97 returning the density when verbose
ReturnOf_VerboseDensity(f, verbose) ==
    IF verbose THEN f.density_lb_per_ft3 ELSE f.gas_gradient

\* what a call with these locals returns (or the exception it raises)
ReturnOf(f, verbose) == f.gas_gradient

calculate_gas_gradient(pressure_psi, temp_celsius, verbose) ==
    ReturnOf(GradientFrame(pressure_psi, temp_celsius), verbose)

(***************************************************************************)
(* Inputs: the floats the command line (float(str)) or a caller supplies.  *)
(***************************************************************************)
MaxPressureSteps == 3
MaxTemperatureSteps == 3

\* -273.15, the literal of main's temperature check
AbsoluteZero == FNeg(Lit_273_15)

\* the value of one unit in the last place of 273.15
UlpAbsoluteZero == FPow2(AbsoluteZero.e)

PressureSeq ==
    << FromInt(230), FromInt(500), FromInt(1000) >>
    \o [k \in 1..MaxPressureSteps |-> FromInt(400 * k)]
    \o << FZero(0), FZero(1), FromInt(-1), FInf(1),
          FPow2(MinExp), FPow2(-500), Dec(1, 100), FromInt(1000000),
          FPow2(1023), FInf(0), NaN >>

TemperatureSeq ==
    << FromInt(30), FromInt(25), FromInt(50) >>
    \o [k \in 1..MaxTemperatureSteps |-> FromInt(100 * k - 250)]
    \o << AbsoluteZero, FAdd(AbsoluteZero, UlpAbsoluteZero),
          FSub(AbsoluteZero, UlpAbsoluteZero), Dec(-27314, 100),
          FromInt(-300), FInf(1), FZero(0),
          FPow2(500), FPow2(1023), FInf(0), NaN >>

Range(q) == {q[i] : i \in 1..Len(q)}

PressureInputs == Range(PressureSeq)
TemperatureInputs == Range(TemperatureSeq)

(***************************************************************************)
(* State.                                                                  *)
(*   main:      pc, args, gradient, invoked, stdout, stderr, exit_status   *)
(*   a caller of the two functions on one (pressure, temperature): given,  *)
(*              ret                                                        *)
(*   a caller of calculate_compressibility_factor on two pressures at one  *)
(*              temperature: pair, zs                                      *)
(***************************************************************************)
VARIABLES pc, args, gradient, invoked, stdout, stderr, exit_status,
          given, ret, pair, zs

mainVars == <<pc, args, gradient, invoked, stdout, stderr, exit_status>>
callVars == <<given, ret>>
pairVars == <<pair, zs>>
vars == <<pc, args, gradient, invoked, stdout, stderr, exit_status,
          given, ret, pair, zs>>

None == [cls |-> "None", sgn |-> 0, m |-> <<>>, e |-> 0]
Pending == [state |-> "pending"]

MainIdle ==
    /\ pc = "start"
    /\ args = [pressure |-> None, temperature |-> None, verbose |-> FALSE]
    /\ gradient = None
    /\ invoked = FALSE
    /\ stdout = <<>>
    /\ stderr = <<>>
    /\ exit_status = <<>>

CallerIdle ==
    /\ given = [pressure_psi |-> None, temp_celsius |-> None]
    /\ ret = [Z |-> Pending, quiet |-> Pending, verbose |-> Pending]

PairIdle ==
    /\ pair = [first |-> None, second |-> None, temp_celsius |-> None]
    /\ zs = [first |-> Pending, second |-> Pending]

(***************************************************************************)
(* main                                                                    *)
(***************************************************************************)
Init == MainIdle /\ CallerIdle /\ PairIdle

\* args = parser.parse_args(), both options required and of type float
ParseArgs ==
    /\ pc = "start"
    /\ \E p \in PressureInputs, t \in TemperatureInputs, v \in BOOLEAN :
          args' = [pressure |-> p, temperature |-> t, verbose |-> v]
    /\ pc' = "validate"
    /\ UNCHANGED <<gradient, invoked, stdout, stderr, exit_status>>
    /\ UNCHANGED <<callVars, pairVars>>

\* line 135 with < in place of <=
PressureRejected_Strict(pressure) == FLt(pressure, FromInt(0))

\* args.pressure <= 0
PressureRejected(pressure) == FLe(pressure, FromInt(0))

\* args.temperature < -273.15
TemperatureRejected(temperature) == FLt(temperature, AbsoluteZero)

RejectPressure ==
    /\ pc = "validate"
    /\ PressureRejected(args.pressure)
    /\ stderr' = Append(stderr, "Error: Pressure must be positive")
    /\ exit_status' = <<1>>
    /\ pc' = "exited"
    /\ UNCHANGED <<args, gradient, invoked, stdout>>
    /\ UNCHANGED <<callVars, pairVars>>

RejectTemperature ==
    /\ pc = "validate"
    /\ ~PressureRejected(args.pressure)
    /\ TemperatureRejected(args.temperature)
    /\ stderr' = Append(stderr, "Error: Temperature cannot be below absolute zero")
    /\ exit_status' = <<1>>
    /\ pc' = "exited"
    /\ UNCHANGED <<args, gradient, invoked, stdout>>
    /\ UNCHANGED <<callVars, pairVars>>

\* gradient = calculate_gas_gradient(args.pressure, args.temperature,
\* args.verbose), with f the locals of that call; main catches nothing, so
\* an exception ends the process with a traceback on the error stream and
\* status 1
Called(f) ==
    IF Raised(f.gas_gradient)
    THEN /\ stderr' = Append(stderr, "ZeroDivisionError: float division by zero")
         /\ exit_status' = <<1>>
         /\ pc' = "exited"
         /\ UNCHANGED <<gradient, stdout>>
    ELSE /\ gradient' = ReturnOf(f, args.verbose)
         /\ stdout' = stdout \o GradientPrints(f, args.verbose)
         /\ pc' = "calculated"
         /\ UNCHANGED <<stderr, exit_status>>

Calculate ==
    /\ pc = "validate"
    /\ ~PressureRejected(args.pressure)
    /\ ~TemperatureRejected(args.temperature)
    /\ invoked' = TRUE
    /\ Called(GradientFrame(args.pressure, args.temperature))
    /\ UNCHANGED args
    /\ UNCHANGED <<callVars, pairVars>>

\* if not args.verbose: print(f"{gradient:.6f}"); return 0
PrintResult ==
    /\ pc = "calculated"
    /\ stdout' = IF args.verbose THEN stdout
                 ELSE Append(stdout, [label |-> "result", val |-> gradient])
    /\ exit_status' = <<0>>
    /\ pc' = "exited"
    /\ UNCHANGED <<args, gradient, invoked, stderr>>
    /\ UNCHANGED <<callVars, pairVars>>

Next == ParseArgs \/ RejectPressure \/ RejectTemperature \/ Calculate \/ PrintResult

Spec == Init /\ [][Next]_vars

(***************************************************************************)
(* A caller of the two functions: it holds one pressure and temperature    *)
(* and calls calculate_compressibility_factor, calculate_gas_gradient      *)
(* without and with verbose, each once, in any order.  ret keeps the       *)
(* locals of each call at its return or raise.                             *)
(***************************************************************************)
InitCalls ==
    /\ MainIdle /\ PairIdle
    /\ given \in [pressure_psi : PressureInputs, temp_celsius : TemperatureInputs]
    /\ ret = [Z |-> Pending, quiet |-> Pending, verbose |-> Pending]

Outcome(x) == IF Raised(x) THEN "raised" ELSE "returned"

Returned(k, f, value, printed) ==
    ret' = [ret EXCEPT ![k] = [state |-> Outcome(value), frame |-> f,
                               value |-> value, printed |-> printed]]

ReturnedZ(f) == Returned("Z", f, f.Z, <<>>)

CallCompressibility ==
    /\ ret.Z.state = "pending"
    /\ ReturnedZ(CompressibilityFrame(given.pressure_psi, given.temp_celsius))
    /\ UNCHANGED <<given, mainVars, pairVars>>

ReturnedGradient(k, f, verbose) ==
    Returned(k, f, ReturnOf(f, verbose), GradientPrints(f, verbose))

CallGradient(k, verbose) ==
    /\ ret[k].state = "pending"
    /\ ReturnedGradient(k, GradientFrame(given.pressure_psi, given.temp_celsius),
                        verbose)
    /\ UNCHANGED <<given, mainVars, pairVars>>

CallGradientQuiet == CallGradient("quiet", FALSE)
CallGradientVerbose == CallGradient("verbose", TRUE)

NextCalls == CallCompressibility \/ CallGradientQuiet \/ CallGradientVerbose

SpecCalls == InitCalls /\ [][NextCalls]_vars

(***************************************************************************)
(* A caller of calculate_compressibility_factor on two pressures at one    *)
(* temperature, one call after the other.                                  *)
(***************************************************************************)
InitPair ==
    /\ MainIdle /\ CallerIdle
    /\ \E i \in 1..Len(PressureSeq), j \in 1..Len(PressureSeq),
          t \in TemperatureInputs :
          /\ i < j
          /\ pair = [first |-> PressureSeq[i], second |-> PressureSeq[j],
                     temp_celsius |-> t]
    /\ zs = [first |-> Pending, second |-> Pending]

ReturnedPair(k, z) == zs' = [zs EXCEPT ![k] = [state |-> Outcome(z), value |-> z]]

CallFirst ==
    /\ zs.first.state = "pending"
    /\ ReturnedPair("first",
                    calculate_compressibility_factor(pair.first, pair.temp_celsius))
    /\ UNCHANGED <<pair, mainVars, callVars>>

CallSecond ==
    /\ zs.first.state # "pending"
    /\ zs.second.state = "pending"
    /\ ReturnedPair("second",
                    calculate_compressibility_factor(pair.second, pair.temp_celsius))
    /\ UNCHANGED <<pair, mainVars, callVars>>

NextPair == CallFirst \/ CallSecond

SpecPair == InitPair /\ [][NextPair]_vars

(***************************************************************************)
(* Properties.                                                             *)
(***************************************************************************)
FAbs(a) == IF IsNaN(a) THEN a ELSE [a EXCEPT !.sgn = 0]

Positive(a) == FGt(a, FZero(0))
Negative(a) == FLt(a, FZero(0))

Done(r) == r.state # "pending"

GradientCalls == {"quiet", "verbose"}

\* C1: for every pressure > 0 and temperature >= -273.15, the boundary
\* included, calculate_compressibility_factor returns (it does not raise) a
\* value Z with 0.5 <= Z <= 1.2.
C1_ZInRangeOnValidInput ==
    (/\ Done(ret.Z)
     /\ Positive(given.pressure_psi)
     /\ FGe(given.temp_celsius, AbsoluteZero))
    => /\ ret.Z.state = "returned"
       /\ FLe(Dec(5, 10), ret.Z.value)
       /\ FLe(ret.Z.value, Dec(12, 10))

ValidationMessages == {"Error: Pressure must be positive",
                       "Error: Temperature cannot be below absolute zero"}

\* C2: on every input that passes the validation (pressure > 0 and
\* temperature >= -273.15, the boundary included) main runs
\* calculate_gas_gradient to completion, prints its output and exits with
\* status zero; it exits non-zero only on a validation failure.
C2_ValidInputExitsZero ==
    pc = "exited" =>
      /\ (Positive(args.pressure) /\ FGe(args.temperature, AbsoluteZero))
            => /\ invoked
               /\ gradient # None
               /\ stdout # <<>>
               /\ exit_status = <<0>>
      /\ exit_status # <<0>>
            => /\ ~invoked
               /\ \E i \in 1..Len(stderr) : stderr[i] \in ValidationMessages

\* C3 as claimed: calculate_gas_gradient returns a strictly positive
\* gradient for every pressure > 0 and temperature > -273.15.
C3_GradientStrictlyPositive ==
    \A k \in GradientCalls :
      (/\ Done(ret[k])
       /\ Positive(given.pressure_psi)
       /\ FGt(given.temp_celsius, AbsoluteZero))
      => /\ ret[k].state = "returned"
         /\ Positive(ret[k].value)

\* C3, amended: for every pressure > 0 and temperature > -273.15
\* calculate_gas_gradient returns (it does not raise) a gradient that is
\* never negative, and strictly positive whenever pressure >= 2^-500 and
\* temperature <= 2^500; beyond that range the quotient can underflow to
\* 0.0 or be NaN.
C3_GradientPositiveInRange ==
    \A k \in GradientCalls :
      (/\ Done(ret[k])
       /\ Positive(given.pressure_psi)
       /\ FGt(given.temp_celsius, AbsoluteZero))
      => /\ ret[k].state = "returned"
         /\ ~Negative(ret[k].value)
         /\ (/\ FGe(given.pressure_psi, FPow2(-500))
             /\ FLe(given.temp_celsius, FPow2(500)))
               => Positive(ret[k].value)

C3_Witness ==
    /\ ret.quiet.state = "returned"
    /\ given.pressure_psi = FPow2(-500)
    /\ given.temp_celsius = FPow2(500)
    /\ Positive(ret.quiet.value)
    /\ IsFinite(ret.quiet.value)

\* C4: given pressure <= 0, or temperature < -273.15, main writes an error
\* message to the error stream and exits with a non-zero status, never
\* invoking calculate_gas_gradient and printing nothing to standard output.
C4_InvalidInputRejected ==
    (/\ pc # "start"
     /\ \/ FLe(args.pressure, FZero(0))
        \/ FLt(args.temperature, AbsoluteZero))
    => /\ ~invoked
       /\ gradient = None
       /\ stdout = <<>>
       /\ pc \in {"validate", "exited"}
       /\ pc = "validate" => /\ ENABLED (RejectPressure \/ RejectTemperature)
                             /\ ~ENABLED Calculate
       /\ pc = "exited" => /\ exit_status = <<1>>
                           /\ Len(stderr) = 1
                           /\ stderr[1] \in ValidationMessages

C4_Witness ==
    /\ pc = "exited"
    /\ Positive(args.pressure)
    /\ FLt(args.temperature, AbsoluteZero)
    /\ exit_status = <<1>>
    /\ stderr = <<"Error: Temperature cannot be below absolute zero">>

AtScenario230 ==
    /\ given.pressure_psi = FromInt(230)
    /\ given.temp_celsius = FromInt(30)

\* C5 as claimed: for pressure = 230 and temperature = 30 the gradient is
\* 0.0876 psi/ft when rounded to four decimal places.
C5_Gradient230Is00876 ==
    \A k \in GradientCalls :
      (Done(ret[k]) /\ AtScenario230)
      => /\ ret[k].state = "returned"
         /\ FGe(ret[k].value, Dec(8755, 100000))
         /\ FLt(ret[k].value, Dec(8765, 100000))

\* C5, amended: for pressure = 230 and temperature = 30 the gradient is
\* 0.0047 psi/ft when rounded to four decimal places (0.004745 to six, the
\* precision main prints), with Z = 0.9221 to four places.
C5_Gradient230Is00047 ==
    \A k \in GradientCalls :
      (Done(ret[k]) /\ AtScenario230)
      => /\ ret[k].state = "returned"
         /\ FGe(ret[k].value, Dec(47445, 10000000))
         /\ FLt(ret[k].value, Dec(47455, 10000000))
         /\ FGe(ret[k].frame.Z, Dec(92205, 100000))
         /\ FLt(ret[k].frame.Z, Dec(92215, 100000))

C5_Witness == ret.quiet.state = "returned" /\ AtScenario230

\* Z of the second call is at most Z of the first when both returned
NotAbove(high, low) ==
    /\ high.state = "returned"
    /\ low.state = "returned"
    /\ FLe(high.value, low.value)

\* C6: for every temperature > -273.15 and pressures 0 < p1 <= p2,
\* calculate_compressibility_factor(p2, t) <= calculate_compressibility_factor(p1, t),
\* the clamped region included.
C6_ZNonIncreasingInPressure ==
    (/\ Done(zs.first) /\ Done(zs.second)
     /\ FGt(pair.temp_celsius, AbsoluteZero))
    => /\ (Positive(pair.first) /\ FLe(pair.first, pair.second))
            => NotAbove(zs.second, zs.first)
       /\ (Positive(pair.second) /\ FLe(pair.second, pair.first))
            => NotAbove(zs.first, zs.second)

C6_Witness ==
    /\ Done(zs.first) /\ Done(zs.second)
    /\ FGt(pair.temp_celsius, AbsoluteZero)
    /\ Positive(pair.first)
    /\ FLt(pair.first, pair.second)
    /\ FLt(zs.second.value, zs.first.value)
    /\ zs.second.value = Dec(5, 10)

C8_GradientUsesClampedZ ==
    \A k \in GradientCalls :
      ret[k].state = "returned" =>
        /\ ret[k].value = FDiv(ret[k].frame.density_lb_per_ft3, FromInt(144))
        /\ ret[k].frame.density_lb_per_ft3 =
              FDiv(FMul(given.pressure_psi, Dec(1604, 100)),
                   FMul(FMul(ret[k].frame.Z, Dec(10732, 1000)),
                        ret[k].frame.temp_rankine))
        /\ ret.Z.state = "returned" =>
              /\ ret[k].frame.Z = ret.Z.value
              /\ FLt(ret.Z.frame.Z_raw, Dec(5, 10)) =>
                    /\ ret[k].frame.Z = Dec(5, 10)
                    /\ ret[k].frame.density_lb_per_ft3 =
                          FDiv(FMul(given.pressure_psi, Dec(1604, 100)),
                               FMul(FMul(Dec(5, 10), Dec(10732, 1000)),
                                    ret[k].frame.temp_rankine))

C8_Witness ==
    /\ ret.quiet.state = "returned"
    /\ ret.Z.state = "returned"
    /\ FLt(ret.Z.frame.Z_raw, Dec(5, 10))
    /\ IsFinite(ret.quiet.value)
    /\ Positive(ret.quiet.value)

BothConverted == Done(ret.Z) /\ Done(ret.quiet)

\* C9 as claimed: the two Celsius-to-absolute conversions are the same
\* function: (t + 273.15) * 9/5 of calculate_compressibility_factor equals
\* t * 9/5 + 491.67 of calculate_gas_gradient for every temperature t.
C9_ConversionsEqual ==
    (BothConverted /\ IsFinite(given.temp_celsius))
    => FEq(ret.Z.frame.temp_rankine, ret.quiet.frame.temp_rankine)

\* C9, amended: the two conversions agree only up to rounding: wherever both
\* are finite they differ by at most 2^-50 * (|t| * 9/5 + 491.67); they are
\* not zero for the same t: at t = -273.15 the first is exactly 0.0 and the
\* second is 2^-44; both are positive for every t > -273.15.
C9_ConversionsAgreeToRounding ==
    BothConverted =>
      /\ (IsFinite(ret.Z.frame.temp_rankine) /\ IsFinite(ret.quiet.frame.temp_rankine))
            => FLe(FAbs(FSub(ret.Z.frame.temp_rankine, ret.quiet.frame.temp_rankine)),
                   FMul(FPow2(-50),
                        FAdd(FDiv(FMul(FAbs(given.temp_celsius), FromInt(9)),
                                  FromInt(5)),
                             Dec(49167, 100))))
      /\ given.temp_celsius = AbsoluteZero
            => /\ IsZero(ret.Z.frame.temp_rankine)
               /\ ret.quiet.frame.temp_rankine = FPow2(-44)
      /\ FGt(given.temp_celsius, AbsoluteZero)
            => /\ Positive(ret.Z.frame.temp_rankine)
               /\ Positive(ret.quiet.frame.temp_rankine)

C9_Witness ==
    /\ BothConverted
    /\ given.temp_celsius = AbsoluteZero
    /\ IsZero(ret.Z.frame.temp_rankine)
    /\ Positive(ret.quiet.frame.temp_rankine)

\* pressure and the absolute temperature of line 31 have opposite signs
OppositeSigns ==
    \/ Positive(given.pressure_psi) /\ Negative(ret.Z.frame.temp_rankine)
    \/ Negative(given.pressure_psi) /\ Positive(ret.Z.frame.temp_rankine)

\* C10 as claimed: for every pressure > 0 and temperature > -273.15,
\* calculate_compressibility_factor returns 0.5 <= Z < 1.0; Z = 1.2 is
\* returned only when pressure and absolute temperature have opposite signs.
C10_ZStrictlyBelowOne ==
    Done(ret.Z) =>
      /\ (Positive(given.pressure_psi) /\ FGt(given.temp_celsius, AbsoluteZero))
            => /\ ret.Z.state = "returned"
               /\ FLe(Dec(5, 10), ret.Z.value)
               /\ FLt(ret.Z.value, FromInt(1))
      /\ (ret.Z.state = "returned" /\ FEq(ret.Z.value, Dec(12, 10)))
            => OppositeSigns

\* C10, amended: for every pressure > 0 and temperature > -273.15,
\* calculate_compressibility_factor returns 0.5 <= Z <= 1.0 (exactly 1.0
\* when 0.36 * Pr / Tr is too small to change 1.0), so the upper clamp bound
\* 1.2 is never attained there; Z = 1.2 is returned only when pressure and
\* absolute temperature have opposite signs.
C10_ZAtMostOne ==
    Done(ret.Z) =>
      /\ (Positive(given.pressure_psi) /\ FGt(given.temp_celsius, AbsoluteZero))
            => /\ ret.Z.state = "returned"
               /\ FLe(Dec(5, 10), ret.Z.value)
               /\ FLe(ret.Z.value, FromInt(1))
      /\ (ret.Z.state = "returned" /\ FEq(ret.Z.value, Dec(12, 10)))
            => OppositeSigns

C10_Witness ==
    /\ ret.Z.state = "returned"
    /\ Positive(given.pressure_psi)
    /\ FGt(given.temp_celsius, AbsoluteZero)
    /\ ret.Z.value = FromInt(1)
    /\ Positive(ret.Z.frame.P_reduced)

====
